---- MODULE Spec2Model ----
(***************************************************************************)
(* Greenhouse Growth Simulator (src/app.js): the weekly growth model, the  *)
(* wall-clock simulation driver (start / tick / harvest / hard reset), the *)
(* delayed per-greenhouse mass reveal, and the DOM state the driver        *)
(* writes.                                                                 *)
(*                                                                         *)
(* Numbers.  JavaScript doubles are modelled as fixed-point integers:      *)
(*   temperature factor   in 1/1540   (1540 = lcm(20, 14, 11), exact)      *)
(*   seasonal multiplier  in 1/10000  (sin rounded to four decimals)       *)
(*   light, CO2, soil     in 1/100                                         *)
(*   cloud reduction, noise, progress, opacity, scale  in 1/1000           *)
(*   weekly growth, accGrowth   in 1/1000000  (products truncated)         *)
(*   Math.pow(x, 1.05)    in 1/1000, linear between integer x              *)
(* Time is in milliseconds.                                                *)
(***************************************************************************)
EXTENDS Integers, Sequences, FiniteSets, TLC

\* ---------------------------------------------------------------- constants

MONTHS == 6
SIM_DURATION_MS == 12000
TICK_MS == 200
WEEKS_PER_MONTH == 4
TOTAL_WEEKS == MONTHS * WEEKS_PER_MONTH

\* base and scale of the mass transform, and the final clamp
\* Math.max(120, Math.min(2200, ...)).
MassBase == 120
MassScale == 30
MinMass == 120
MaxMass == 2200

\* Delay step of the staggered reveal: setTimeout(..., i * 200).
RevealStaggerMs == 200

\* ------------------------------------------------------------------- bounds

\* Number of .greenhouse-card elements in the document (index.html).
NumGH == 2
\* Clock advances explored between two timer callbacks, in ms: FineStep during
\* the first FineWindow ms after the start timestamp, CoarseStep and the whole
\* duration at any time.
FineStep == 250
FineWindow == 750
CoarseStep == 10500
\* Input edits (slider or +/- button) explored over the life of the page.
MaxEdits == 1
\* Leaf and tomato elements drawn per plant (index.html).
NumLeaves == 2
NumTomatoes == 2
\* Arguments of the direct growth-model evaluations: temperatures
\* 0..ProbeTempMax, light and fan counts -1..ProbeCountMax.
ProbeTempMax == 40
ProbeCountMax == 4

GH == 1..NumGH
Weeks == 0..(TOTAL_WEEKS - 1)

\* -------------------------------------------------------------- arithmetic

Min(a, b) == IF a < b THEN a ELSE b
Max(a, b) == IF a > b THEN a ELSE b

\* Math.max(lo, Math.min(hi, x))
Clamp(lo, hi, x) == Max(lo, Min(hi, x))

\* -------------------------------------------------------------- growth model

\* 0.95 + 0.05 * Math.sin((monthIdx / 6) * Math.PI * 2), in 1/10000.
Seasonal(monthIdx) ==
    <<9500, 9933, 9933, 9500, 9067, 9067>>[(monthIdx % MONTHS) + 1]

\* tempFactor before the final clamp, in 1/1540:
\*   0.05 = 77/1540, 1/14 = 110/1540, 1/11 = 140/1540.
RawTempFactor(t) ==
    IF t <= 10 \/ t >= 35 THEN 77
    ELSE IF t <= 24 THEN 77 + (t - 10) * 110
    ELSE 1540 - (t - 24) * 140

\* Mutant: the triangular response peaks one degree late.
TempFactorPeakShifted(t) ==
    Clamp(77, 1540,
          IF t <= 10 \/ t >= 35 THEN 77
          ELSE IF t <= 25 THEN 77 + (t - 11) * 110
          ELSE 1540 - (t - 25) * 154)

\* tempFactor = Math.max(0.05, Math.min(1, tempFactor)), in 1/1540.
TempFactor(t) == Clamp(77, 1540, RawTempFactor(t))

\* Math.max(0, Math.min(3, n|0)) for an integer n.
ClampCount(n) == Clamp(0, 3, n)

\* Mutant: a fourth light unit still adds light.
lightMultipliersUnsaturated == <<100, 130, 160, 190>>

lightMultipliers == <<100, 130, 160, 160>>
co2Multipliers == <<100, 115, 125, 125>>

\* co2Multipliers[Math.max(0, Math.min(3, co2Fans|0))], in 1/100.
Co2Factor(co2Fans) == co2Multipliers[ClampCount(co2Fans) + 1]

\* cloudyReductions?.[weekIndex] || 0, in 1/1000: an index outside the array
\* (or an empty array) reads undefined, which || turns into 0.
ReductionAt(cloudyReductions, weekIndex) ==
    IF weekIndex + 1 \in DOMAIN cloudyReductions
    THEN cloudyReductions[weekIndex + 1]
    ELSE 0

\* Mutant: the cloud reduction is not applied.
LightFactorNoCloud(lightsCount, reduction) ==
    lightMultipliers[ClampCount(lightsCount) + 1] * 1000

\* lightFactor after `if (reduction > 0) lightFactor *= (1 - reduction)`,
\* in 1/100000 (exact).
LightFactor(lightsCount, reduction) ==
    LET base == lightMultipliers[ClampCount(lightsCount) + 1]
    IN  IF reduction > 0 THEN base * (1000 - reduction) ELSE base * 1000

\* computeWeeklyGrowthFor: seasonal * tempFactor * lightFactor * co2Factor * soil
\* in 1/1000000; the running product is truncated to six decimals (four after
\* the first factor pair) to stay inside 32-bit integers.
computeWeeklyGrowthFor(temperatureC, lightsCount, co2Fans, soil, weekIndex, cloudyReductions) ==
    LET monthIdx  == weekIndex \div WEEKS_PER_MONTH
        reduction == ReductionAt(cloudyReductions, weekIndex)
        st        == (Seasonal(monthIdx) * TempFactor(temperatureC)) \div 1540
        stl       == (st * LightFactor(lightsCount, reduction)) \div 1000
        stlc      == (stl * Co2Factor(co2Fans)) \div 100
    IN  (stlc * soil) \div 100

\* Math.pow(k, 1.05) * 1000 for k = 0..57.
Pow105Table ==
    <<0, 1000, 2071, 3169, 4287, 5419, 6562, 7715, 8877, 10045,
      11220, 12401, 13588, 14779, 15975, 17175, 18379, 19587, 20799, 22014,
      23232, 24453, 25677, 26904, 28133, 29365, 30600, 31837, 33076, 34318,
      35561, 36807, 38055, 39304, 40556, 41809, 43064, 44321, 45580, 46840,
      48102, 49365, 50630, 51897, 53165, 54434, 55705, 56977, 58251, 59526,
      60802, 62080, 63358, 64638, 65919, 67202, 68485, 69770>>

\* Math.pow(acc, 1.05) in 1/1000 for acc in 1/1000000: the table value at the
\* integer part, interpolated linearly over the fraction (the last segment
\* extended beyond the table).
Pow105(acc) ==
    LET k    == Min(acc \div 1000000, Len(Pow105Table) - 2)
        frac == acc - k * 1000000
        lo   == Pow105Table[k + 1]
        hi   == Pow105Table[k + 2]
    IN  lo + ((hi - lo) * (frac \div 1000)) \div 1000

\* Math.round(base + scale * Math.pow(acc, exp) * noise), noise in 1/1000.
RoundedMass(acc, noise) ==
    (MassBase * 1000 + MassScale * ((Pow105(acc) * noise) \div 1000) + 500) \div 1000

\* Mutant: the upper clamp is missing from the final mass.
FinalMassNoUpperClamp(acc, noise) == Max(MinMass, RoundedMass(acc, noise))

\* Math.max(120, Math.min(2200, Math.round(...))) of the reveal callback.
FinalMass(acc, noise) == Clamp(MinMass, MaxMass, RoundedMass(acc, noise))

\* tomatoScaleFromMass, in 1/1000: 0.8 + 0.7 * clamp01((mass - 120) / 2080).
tomatoScaleFromMass(mass) ==
    800 + (700 * Clamp(0, 1000, ((mass - MinMass) * 1000) \div (MaxMass - MinMass))) \div 1000

\* easeInOutQuad, argument and result in 1/1000.
easeInOutQuad(x) ==
    IF x < 500 THEN (2 * x * x) \div 1000
    ELSE 1000 - ((2000 - 2 * x) * (2000 - 2 * x)) \div 2000

\* 1 + Math.floor(Math.random() * 3) stretches of 1 + Math.floor(Math.random() * 2)
\* weeks each.
MaxStretches == 3
MaxStretchLen == 2

\* ------------------------------------------------------------------- state

VARIABLES
    running,            \* let running
    timer,              \* let timer: the handle setInterval last returned (0: null)
    intervals,          \* live interval timers: handle -> ms since it last fired
    timeouts,           \* pending reveal callbacks (setTimeout of the harvest)
    elapsed,            \* performance.now() - startTs, saturating at SIM_DURATION_MS
    state,              \* let state: per greenhouse record of initState()
    inputs,             \* the range inputs' values per greenhouse
    growBtnDisabled,    \* growBtn.disabled
    resetBtnDisabled,   \* resetBtn.disabled
    progressBar,        \* progressBar.style.width, in percent
    progressLabel,      \* progressLabel.textContent
    massEl,             \* .mass textContent per greenhouse
    eventsEl,           \* .gh-events holds the cloudy badge, per greenhouse
    plant,              \* stem / leaves / tomatoes attributes per greenhouse
    edits,              \* input edits made so far (bounded by MaxEdits)
    editedInRun,        \* per greenhouse: an input changed since the last start or reset
    ticks,              \* tick callbacks executed in the active run
    probe               \* arguments and results of a direct growth-model evaluation

vars == <<running, timer, intervals, timeouts, elapsed, state, inputs,
          growBtnDisabled, resetBtnDisabled, progressBar, progressLabel,
          massEl, eventsEl, plant, edits, editedInRun, ticks, probe>>

driverVars == <<running, timer, intervals, timeouts, elapsed, state, inputs,
                growBtnDisabled, resetBtnDisabled, progressBar, progressLabel,
                massEl, eventsEl, plant, edits, editedInRun, ticks>>

\* ---------------------------------------------------------- sampled draws

\* Outcomes of the 0.85 + Math.random() * 0.3 draws of one initState()
\* explored, in 1/100, per greenhouse.
SoilDraws ==
    { [i \in GH |-> IF i % 2 = 1 THEN 85 ELSE 114],
      [i \in GH |-> IF i % 2 = 1 THEN 114 ELSE 100] }

\* Values of 0.9 + Math.random() * 0.2 explored, in 1/1000.
NoiseSamples == {900, 1099}

\* Outcomes of the Math.random() calls of one schedule generation: the
\* (start, len) pair of each stretch and the reduction given to the cloudy
\* weeks, in 1/1000.
CloudA == [stretches |-> << <<0, 1>> >>, reduction |-> 300]
CloudB == [stretches |-> << <<TOTAL_WEEKS - 2, 2>>, <<1, 2>>, <<2, 1>> >>, reduction |-> 599]

\* Outcomes of the schedule generation of one runSimulation() explored, per
\* greenhouse.
CloudDraws ==
    { [i \in GH |-> IF i % 2 = 1 THEN CloudA ELSE CloudB],
      [i \in GH |-> IF i % 2 = 1 THEN CloudB ELSE CloudA] }

\* Slider values explored.
DefaultInput == [temperature |-> 20, lights |-> 1, co2 |-> 1]
TempSamples == {20, 30}
LightSamples == {1, 3}
Co2Samples == {0, 1}

\* Clock advances explored from an elapsed time of e ms.
ClockSteps(e) ==
    {CoarseStep, SIM_DURATION_MS} \cup (IF e < FineWindow THEN {FineStep} ELSE {})

\* --------------------------------------------------------------- DOM values

Placeholder == [shown |-> FALSE, inRange |-> TRUE]
MassText(mass) == [shown |-> TRUE, inRange |-> (MinMass <= mass /\ mass <= MaxMass)]

LabelIdle == [phase |-> "Idle", month |-> 0, of |-> 0]
LabelHarvest == [phase |-> "Harvest ready", month |-> 0, of |-> 0]

\* Mutant: the label shows the zero-based month.
LabelGrowingZeroBased(k) == [phase |-> "Growing", month |-> k - 1, of |-> MONTHS]

\* `Growing... Month ${month + 1} of ${MONTHS}` with k = month + 1.
LabelGrowing(k) == [phase |-> "Growing", month |-> k, of |-> MONTHS]

\* Mutant: the Grow button is never disabled.
setInteractiveGrowAlways(enabled) == [growBtn |-> FALSE, resetBtn |-> enabled]

\* setInteractive(enabled): the `disabled` flags it gives the two main buttons
\* (the sliders and +/- buttons are always enabled).
setInteractive(enabled) == [growBtn |-> ~enabled, resetBtn |-> enabled]

\* resetPlants: stem scale(1,0.1); leaves opacity 0, scale 0.8; tomatoes
\* opacity 0, scale 0.6.
RestPlant ==
    [stem     |-> 100,
     leaves   |-> [i \in 1..NumLeaves |-> [opacity |-> 0, scale |-> 800]],
     tomatoes |-> [i \in 1..NumTomatoes |-> [opacity |-> 0, scale |-> 600]]]

\* animateStep(progress01) for one greenhouse; e is the elapsed time capped at
\* SIM_DURATION_MS, so progress01 = e / SIM_DURATION_MS.
animateStep(e, tomatoScaleTarget) ==
    LET p     == (e * 1000) \div SIM_DURATION_MS
        sEase == easeInOutQuad(p)
        leafT(i) == Clamp(0, 1000, (p - (300 + (i - 1) * 100)) * 5)
        tomT(i)  == Clamp(0, 1000, ((p - (650 + (i - 1) * 100)) * 100) \div 15)
        sizeMult == 1000 + ((tomatoScaleTarget - 1000) * sEase) \div 1000
    IN  [stem     |-> 100 + (900 * p) \div 1000,
         leaves   |-> [i \in 1..NumLeaves |->
                          [opacity |-> leafT(i), scale |-> 800 + leafT(i) \div 5]],
         tomatoes |-> [i \in 1..NumTomatoes |->
                          [opacity |-> tomT(i),
                           scale |-> ((600 + (2 * tomT(i)) \div 5) * sizeMult) \div 1000]]]

\* ---------------------------------------------------------------- initState

\* One record of initState(): soil is drawn, the rest is fixed.
NewGreenhouse(soil) ==
    [soil |-> soil,
     cloudyWeeks |-> {},
     cloudyReductions |-> << >>,
     accGrowth |-> 0,
     lastWeekComputed |-> 0 - 1,
     tomatoScaleTarget |-> 1000]

\* The cloudy set of runSimulation: for each stretch, the weeks
\* Math.min(weeks - 1, start + j), j < len.
CloudySet(stretches) ==
    UNION { { Min(TOTAL_WEEKS - 1, stretches[k][1] + j) : j \in 0..(stretches[k][2] - 1) } :
            k \in DOMAIN stretches }

\* Mutant: a reduction is drawn for every week, cloudy or not.
ReductionsEveryWeek(cloudy, red) == [w1 \in 1..TOTAL_WEEKS |-> red[w1 - 1]]

\* cloudyReductions: Array.from({length: weeks}, w => cloudy.has(w) ? draw : 0);
\* red[w] is the draw 0.3 + Math.random() * 0.3 of week w, in 1/1000.
Reductions(cloudy, red) ==
    [w1 \in 1..TOTAL_WEEKS |-> IF (w1 - 1) \in cloudy THEN red[w1 - 1] ELSE 0]

\* The per-greenhouse body of runSimulation's state.forEach: a fresh schedule
\* and reset accumulators; soil and tomatoScaleTarget are kept.
StartGreenhouse(s, draw) ==
    LET cloudy == CloudySet(draw.stretches)
    IN  [s EXCEPT !.cloudyWeeks = cloudy,
                  !.cloudyReductions = Reductions(cloudy, [w \in Weeks |-> draw.reduction]),
                  !.accGrowth = 0,
                  !.lastWeekComputed = 0 - 1]

\* --------------------------------------------------------------- tick parts

\* elapsed capped at the duration: p = Math.min(1, elapsed / SIM_DURATION_MS)
\* is Progress / SIM_DURATION_MS.
Progress == Min(SIM_DURATION_MS, elapsed)

\* Mutant: the week index is not capped at TOTAL_WEEKS - 1.
CurrentWeekUnclamped(e) == (e * TOTAL_WEEKS) \div SIM_DURATION_MS

\* Math.min(TOTAL_WEEKS - 1, Math.floor(p * TOTAL_WEEKS))
CurrentWeek(e) == Min(TOTAL_WEEKS - 1, (e * TOTAL_WEEKS) \div SIM_DURATION_MS)

\* The loops `for (w = from; w <= to; w++) acc += computeWeeklyGrowthFor(...)`.
RECURSIVE IntegrateWeeks(_, _, _, _, _)
IntegrateWeeks(acc, from, to, in, s) ==
    IF from > to THEN acc
    ELSE IntegrateWeeks(
             acc + computeWeeklyGrowthFor(in.temperature, in.lights, in.co2,
                                          s.soil, from, s.cloudyReductions),
             from + 1, to, in, s)

\* Mutant: every tick recomputes the accumulator from week 0 with the inputs
\* read in that tick.
IntegrateRetroactive(s, in, currentWeek) ==
    [s EXCEPT !.accGrowth = IntegrateWeeks(0, 0, currentWeek, in, s),
              !.lastWeekComputed = Max(s.lastWeekComputed, currentWeek)]

\* Mutant: the loop starts at lastWeekComputed instead of lastWeekComputed + 1.
IntegrateFromLastWeek(s, in, currentWeek) ==
    [s EXCEPT !.accGrowth = IntegrateWeeks(s.accGrowth, Max(0, s.lastWeekComputed),
                                           currentWeek, in, s),
              !.lastWeekComputed = Max(s.lastWeekComputed, currentWeek)]

\* Mutant: the projection of the weeks after currentWeek is added to the
\* accumulator as well.
IntegrateWithProjection(s, in, currentWeek) ==
    [s EXCEPT !.accGrowth = IntegrateWeeks(s.accGrowth, s.lastWeekComputed + 1,
                                           TOTAL_WEEKS - 1, in, s),
              !.lastWeekComputed = Max(s.lastWeekComputed, currentWeek)]

\* The integration loop of the tick (weeks lastWeekComputed + 1 .. currentWeek).
IntegrateNewWeeks(s, in, currentWeek) ==
    [s EXCEPT !.accGrowth = IntegrateWeeks(s.accGrowth, s.lastWeekComputed + 1,
                                           currentWeek, in, s),
              !.lastWeekComputed = Max(s.lastWeekComputed, currentWeek)]

\* Mutant: the projection redraws the reductions of the cloudy weeks on every
\* evaluation (as computeMassWeekly does) and stores them.
ProjectTargetRedraw(s, in, currentWeek) ==
    [s EXCEPT !.cloudyReductions =
                  [w1 \in DOMAIN s.cloudyReductions |->
                      IF s.cloudyReductions[w1] > 0 THEN 300 + ((currentWeek * 7) % 300) ELSE 0]]

\* The projection of the remaining weeks and the live size target.
\* (`projected` and `estMass` are bound to their values, as the code's locals.)
ProjectTarget(s, in, currentWeek) ==
    CHOOSE r \in
        { [s EXCEPT !.tomatoScaleTarget =
                        tomatoScaleFromMass(Clamp(MinMass, MaxMass, estMass))] :
          estMass \in
              { RoundedMass(s.accGrowth + projected, 1000) :
                projected \in {IntegrateWeeks(0, currentWeek + 1, TOTAL_WEEKS - 1, in, s)} } } :
        TRUE

\* The per-greenhouse body of the tick's first state.forEach.
TickGreenhouse(s, in, currentWeek) ==
    CHOOSE r \in { ProjectTarget(integrated, in, currentWeek) :
                       integrated \in {IntegrateNewWeeks(s, in, currentWeek)} } : TRUE

\* setInterval / setTimeout bookkeeping.
NewHandle(live) == CHOOSE h \in 1..(Cardinality(live) + 1) : h \notin live
Without(f, h) == [x \in (DOMAIN f) \ {h} |-> f[x]]
With(f, h, v) == [x \in (DOMAIN f) \cup {h} |-> IF x = h THEN v ELSE f[x]]

\* Mutant: clearInterval is a no-op.
ClearIntervalNoop(live, h) == live

\* clearInterval(h): a handle that is null or already cleared is ignored.
ClearInterval(live, h) == Without(live, h)

\* Mutant: the `if (running) return` guard is missing.
StartAlwaysAccepted == TRUE

\* runSimulation goes on past `if (running) return`.
StartAccepted == ~running

\* Mutant: the tick never sees the end of the run.
HarvestNever(e) == e > SIM_DURATION_MS

\* `if (p >= 1)` of the tick.
HarvestReached(e) == e >= SIM_DURATION_MS

\* Mutant: resetPlants leaves the mass text alone.
ResetMassKept == massEl

\* resetPlants: s.massEl.textContent = placeholder, for every greenhouse.
ResetMass == [i \in GH |-> Placeholder]

\* A reveal callback holds its greenhouse object `s`; after hardReset replaced
\* `state`, the object is no longer state[i] and keeps the accGrowth it had.
Detach(t) ==
    IF t.detached THEN t ELSE [t EXCEPT !.detached = TRUE, !.s = state[t.gh]]

NoProbe ==
    [stage |-> "none", temperatureC |-> 0, lightsCount |-> 0, co2Fans |-> 0,
     soil |-> 0, cloudyWeeks |-> {}, cloudyReductions |-> << >>, weekly |-> << >>,
     tempFactor |-> 0, lightFactor |-> << >>, co2Factor |-> 0, acc |-> 0, mass |-> 0,
     stretches |-> << >>, reductionDraws |-> << >>]

\* -------------------------------------------------------------------- Init

\* The state after the script has run: initState(), setInteractive(true),
\* resetPlants().
Init ==
    /\ running = FALSE
    /\ timer = 0
    /\ intervals = << >>
    /\ timeouts = {}
    /\ elapsed = 0
    /\ state \in { [i \in GH |-> NewGreenhouse(soil[i])] : soil \in SoilDraws }
    /\ inputs = [i \in GH |-> DefaultInput]
    /\ growBtnDisabled = setInteractive(TRUE).growBtn
    /\ resetBtnDisabled = setInteractive(TRUE).resetBtn
    /\ progressBar = 0
    /\ progressLabel = LabelIdle
    /\ massEl = [i \in GH |-> Placeholder]
    /\ eventsEl = [i \in GH |-> FALSE]
    /\ plant = [i \in GH |-> RestPlant]
    /\ edits = 0
    /\ editedInRun = [i \in GH |-> FALSE]
    /\ ticks = 0
    /\ probe = NoProbe

\* ----------------------------------------------------------------- actions

\* runSimulation().  updateHardwareVisuals() writes only the heater / light /
\* fan indicators and the value labels, which nothing here reads.
RunSimulation ==
    IF ~StartAccepted THEN UNCHANGED vars
    ELSE \E draw \in CloudDraws :
           LET h == NewHandle(DOMAIN intervals)
           IN  /\ running' = TRUE
               /\ growBtnDisabled' = setInteractive(FALSE).growBtn
               /\ resetBtnDisabled' = setInteractive(FALSE).resetBtn
               /\ elapsed' = 0
               /\ state' = [i \in GH |-> StartGreenhouse(state[i], draw[i])]
               /\ timer' = h
               /\ intervals' = With(intervals, h, 0)
               /\ editedInRun' = [i \in GH |-> FALSE]
               /\ ticks' = 0
               /\ UNCHANGED <<timeouts, inputs, progressBar, progressLabel,
                              massEl, eventsEl, plant, edits, probe>>

\* hardReset(): clearInterval, running = false, state = initState(),
\* resetPlants(), setInteractive(true).
HardReset ==
    \E soil \in SoilDraws :
        /\ intervals' = ClearInterval(intervals, timer)
        /\ running' = FALSE
        /\ state' = [i \in GH |-> NewGreenhouse(soil[i])]
        /\ timeouts' = { Detach(t) : t \in timeouts }
        /\ plant' = [i \in GH |-> RestPlant]
        /\ massEl' = ResetMass
        /\ progressBar' = 0
        /\ progressLabel' = LabelIdle
        /\ growBtnDisabled' = setInteractive(TRUE).growBtn
        /\ resetBtnDisabled' = setInteractive(TRUE).resetBtn
        /\ editedInRun' = [i \in GH |-> FALSE]
        /\ ticks' = 0
        /\ UNCHANGED <<timer, elapsed, inputs, eventsEl, edits, probe>>

\* The setInterval callback, run for the live interval h when it is due.
TickOf(h) ==
    /\ h \in DOMAIN intervals
    /\ intervals[h] >= TICK_MS
    /\ LET e           == Progress
           currentWeek == CurrentWeek(e)
       IN  \E newState \in {[i \in GH |-> TickGreenhouse(state[i], inputs[i], currentWeek)]} :
           /\ progressBar' = (e * 100) \div SIM_DURATION_MS
           /\ progressLabel' = IF e < SIM_DURATION_MS
                               THEN LabelGrowing((e * MONTHS) \div SIM_DURATION_MS + 1)
                               ELSE LabelHarvest
           /\ state' = newState
           /\ plant' = [i \in GH |-> animateStep(e, newState[i].tomatoScaleTarget)]
           /\ eventsEl' = [i \in GH |-> currentWeek \in newState[i].cloudyWeeks]
           /\ IF HarvestReached(e)
              THEN /\ intervals' = ClearInterval([intervals EXCEPT ![h] = 0], timer)
                   /\ running' = FALSE
                   /\ timeouts' = timeouts \cup
                          { [gh |-> i, remaining |-> (i - 1) * RevealStaggerMs,
                             detached |-> FALSE, s |-> NewGreenhouse(0)] : i \in GH }
                   /\ ticks' = 0
              ELSE /\ intervals' = [intervals EXCEPT ![h] = 0]
                   /\ ticks' = ticks + 1
                   /\ UNCHANGED <<running, timeouts>>
    /\ UNCHANGED <<timer, elapsed, inputs, growBtnDisabled, resetBtnDisabled,
                   massEl, edits, editedInRun, probe>>

Tick == \E h \in DOMAIN intervals : TickOf(h)

\* A due setTimeout callback of the harvest: draws the noise, computes the
\* final mass from s.accGrowth and writes it to the greenhouse's .mass element.
Reveal ==
    \E t \in timeouts, noise \in NoiseSamples :
        /\ t.remaining = 0
        /\ LET s == IF t.detached THEN t.s ELSE state[t.gh]
           IN  massEl' = [massEl EXCEPT ![t.gh] = MassText(FinalMass(s.accGrowth, noise))]
        /\ timeouts' = timeouts \ {t}
        /\ UNCHANGED <<running, timer, intervals, elapsed, state, inputs,
                       growBtnDisabled, resetBtnDisabled, progressBar, progressLabel,
                       eventsEl, plant, edits, editedInRun, ticks, probe>>

\* An `input` event of a slider or a click on a +/- button of greenhouse i:
\* one of its three values changes.  The controls are never disabled.
InputEdit ==
    \E i \in GH :
        /\ edits < MaxEdits
        /\ \E v \in { [inputs[i] EXCEPT !.temperature = x] : x \in TempSamples } \cup
                    { [inputs[i] EXCEPT !.lights = x] : x \in LightSamples } \cup
                    { [inputs[i] EXCEPT !.co2 = x] : x \in Co2Samples } :
               /\ v # inputs[i]
               /\ inputs' = [inputs EXCEPT ![i] = v]
        /\ edits' = edits + 1
        /\ editedInRun' = [editedInRun EXCEPT ![i] = TRUE]
        /\ UNCHANGED <<running, timer, intervals, timeouts, elapsed, state,
                       growBtnDisabled, resetBtnDisabled, progressBar, progressLabel,
                       massEl, eventsEl, plant, ticks, probe>>

\* The wall clock advances by d ms.  Callbacks run when they are due; a late
\* callback is one that became due by a long advance.  The clock is read only
\* by timer callbacks, so it is advanced only while one is pending.
Advance ==
    \E d \in ClockSteps(elapsed) :
        /\ (DOMAIN intervals # {} \/ timeouts # {})
        /\ \A h \in DOMAIN intervals : intervals[h] < TICK_MS
        /\ \A t \in timeouts : t.remaining > 0
        /\ elapsed' = Min(SIM_DURATION_MS, elapsed + d)
        /\ intervals' = [h \in DOMAIN intervals |-> Min(TICK_MS, intervals[h] + d)]
        /\ timeouts' = { [t EXCEPT !.remaining = Max(0, @ - d)] : t \in timeouts }
        /\ UNCHANGED <<running, timer, state, inputs, growBtnDisabled, resetBtnDisabled,
                       progressBar, progressLabel, massEl, eventsEl, plant, edits,
                       editedInRun, ticks, probe>>

\* A click on growBtn / resetBtn: a disabled button dispatches no click.
GrowClick == ~growBtnDisabled /\ RunSimulation
ResetClick == ~resetBtnDisabled /\ HardReset

\* The two commands issued regardless of the buttons' state.
StartCommand == RunSimulation
ResetCommand == HardReset

Next == GrowClick \/ ResetClick \/ Tick \/ Reveal \/ InputEdit \/ Advance

Spec == Init /\ [][Next]_vars

NextCmd == StartCommand \/ ResetCommand \/ Tick \/ Reveal \/ InputEdit \/ Advance

SpecCmd == Init /\ [][NextCmd]_vars

\* The event loop runs every due timer callback, and the clock advances.
FairSpec == Init /\ [][Next]_vars /\ WF_vars(Tick) /\ WF_vars(Reveal) /\ WF_vars(Advance)

\* ------------------------------------------- direct growth-model evaluation

\* The schedule of initState() and the two generated ones.
ProbeSchedules ==
    { [cloudyWeeks |-> {}, cloudyReductions |-> << >>] } \cup
    { [cloudyWeeks |-> CloudySet(c.stretches),
       cloudyReductions |-> Reductions(CloudySet(c.stretches), [w \in Weeks |-> c.reduction])] :
        c \in {CloudA, CloudB} }

ProbeArgs ==
    { [NoProbe EXCEPT !.stage = "args", !.temperatureC = t, !.lightsCount = l,
                      !.co2Fans = c, !.soil = so, !.cloudyWeeks = r.cloudyWeeks,
                      !.cloudyReductions = r.cloudyReductions] :
        t \in 0..ProbeTempMax, l \in (0 - 1)..ProbeCountMax, c \in (0 - 1)..ProbeCountMax,
        so \in {85, 115}, r \in ProbeSchedules }

InitGrowth ==
    /\ running = FALSE
    /\ timer = 0
    /\ intervals = << >>
    /\ timeouts = {}
    /\ elapsed = 0
    /\ state = [i \in GH |-> NewGreenhouse(100)]
    /\ inputs = [i \in GH |-> DefaultInput]
    /\ growBtnDisabled = FALSE
    /\ resetBtnDisabled = TRUE
    /\ progressBar = 0
    /\ progressLabel = LabelIdle
    /\ massEl = [i \in GH |-> Placeholder]
    /\ eventsEl = [i \in GH |-> FALSE]
    /\ plant = [i \in GH |-> RestPlant]
    /\ edits = 0
    /\ editedInRun = [i \in GH |-> FALSE]
    /\ ticks = 0
    /\ probe \in ProbeArgs

\* computeWeeklyGrowthFor applied to every week of the run and accumulated as
\* the tick's integration loop does when the first tick already sees p = 1.
ProbeGrowth ==
    /\ probe.stage = "args"
    /\ LET in == [temperature |-> probe.temperatureC, lights |-> probe.lightsCount,
                  co2 |-> probe.co2Fans]
           s  == [NewGreenhouse(probe.soil) EXCEPT
                      !.cloudyReductions = probe.cloudyReductions]
       IN  probe' = [probe EXCEPT
                 !.stage = "integrated",
                 !.tempFactor = TempFactor(probe.temperatureC),
                 !.lightFactor = [w1 \in 1..TOTAL_WEEKS |->
                                     LightFactor(probe.lightsCount,
                                         ReductionAt(probe.cloudyReductions, w1 - 1))],
                 !.co2Factor = Co2Factor(probe.co2Fans),
                 !.weekly = [w1 \in 1..TOTAL_WEEKS |->
                                computeWeeklyGrowthFor(probe.temperatureC, probe.lightsCount,
                                    probe.co2Fans, probe.soil, w1 - 1, probe.cloudyReductions)],
                 !.acc = IntegrateNewWeeks(s, in, TOTAL_WEEKS - 1).accGrowth]
    /\ UNCHANGED driverVars

\* The final mass of the reveal callback for the integrated accumulator.
ProbeReveal ==
    /\ probe.stage = "integrated"
    /\ \E noise \in NoiseSamples :
           probe' = [probe EXCEPT !.stage = "final", !.mass = FinalMass(probe.acc, noise)]
    /\ UNCHANGED driverVars

NextGrowth == ProbeGrowth \/ ProbeReveal

SpecGrowth == InitGrowth /\ [][NextGrowth]_vars

\* ------------------------------------------- direct schedule generation

\* Outcomes of Math.floor(Math.random() * (weeks - 1)) explored: both ends of
\* 0..weeks-2, their neighbours and a middle week.
StretchStarts == {0, 1, 11, TOTAL_WEEKS - 3, TOTAL_WEEKS - 2}

\* The (start, len) draws of one schedule generation: 1..MaxStretches
\* stretches of 1..MaxStretchLen weeks.
StretchDraws ==
    UNION { [1..n -> StretchStarts \X (1..MaxStretchLen)] : n \in 1..MaxStretches }

\* Outcomes of the per-week draws 0.3 + Math.random() * 0.3 explored, in
\* 1/1000: the least value, the greatest, and values varying by week.
ReductionDraws ==
    { [w \in Weeks |-> 300], [w \in Weeks |-> 599], [w \in Weeks |-> 300 + ((w * 13) % 300)] }

InitSchedule ==
    /\ running = FALSE
    /\ timer = 0
    /\ intervals = << >>
    /\ timeouts = {}
    /\ elapsed = 0
    /\ state = [i \in GH |-> NewGreenhouse(100)]
    /\ inputs = [i \in GH |-> DefaultInput]
    /\ growBtnDisabled = FALSE
    /\ resetBtnDisabled = TRUE
    /\ progressBar = 0
    /\ progressLabel = LabelIdle
    /\ massEl = [i \in GH |-> Placeholder]
    /\ eventsEl = [i \in GH |-> FALSE]
    /\ plant = [i \in GH |-> RestPlant]
    /\ edits = 0
    /\ editedInRun = [i \in GH |-> FALSE]
    /\ ticks = 0
    /\ probe \in { [NoProbe EXCEPT !.stage = "draw", !.stretches = st, !.reductionDraws = rd] :
                      st \in StretchDraws, rd \in ReductionDraws }

\* The schedule generation of runSimulation for one greenhouse.
ProbeSchedule ==
    /\ probe.stage = "draw"
    /\ LET cloudy == CloudySet(probe.stretches)
       IN  probe' = [probe EXCEPT
                 !.stage = "scheduled",
                 !.cloudyWeeks = cloudy,
                 !.cloudyReductions = Reductions(cloudy, probe.reductionDraws)]
    /\ UNCHANGED driverVars

SpecSchedule == InitSchedule /\ [][ProbeSchedule]_vars

\* ------------------------------------------------------------------ claims

\* The driver state of the specification: Running while `running` is set,
\* Harvested between the harvesting tick and the next hard reset (the main
\* buttons stay as runSimulation set them), Idle otherwise.
DriverState ==
    IF running THEN "Running"
    ELSE IF growBtnDisabled THEN "Harvested"
    ELSE "Idle"

\* A step that is a hard reset: the only code that enables growBtn and that
\* replaces `state` while growBtn is enabled.
ResetStep == ~growBtnDisabled' /\ (growBtnDisabled \/ state' # state)

Schedule(s) == <<s.cloudyWeeks, s.cloudyReductions>>

\* C1: while the driver is Running no step other than a hard reset -- in
\* particular no start command, which may be issued at any time -- creates a
\* second interval timer, recaptures the start timestamp (the elapsed time
\* never goes back), regenerates a cloud schedule or resets accGrowth or
\* lastWeekComputed.
C1_StartWhileRunningIsNoOp ==
    [][(running /\ ~ResetStep) =>
          /\ Cardinality(DOMAIN intervals') <= 1
          /\ timer' = timer
          /\ elapsed' >= elapsed
          /\ \A i \in GH :
                /\ Schedule(state'[i]) = Schedule(state[i])
                /\ state'[i].accGrowth >= state[i].accGrowth
                /\ state'[i].lastWeekComputed >= state[i].lastWeekComputed]_vars

\* A run in progress (weeks integrated, one interval live) in which the
\* start command can be issued.
C1_Witness ==
    /\ running
    /\ ENABLED StartCommand
    /\ elapsed > 0
    /\ Cardinality(DOMAIN intervals) = 1
    /\ \A i \in GH : state[i].accGrowth > 0 /\ state[i].lastWeekComputed >= 0

\* C2: every hard reset step, from Idle, Running or Harvested, leaves the
\* progress indicator at 0, the phase label at "Idle" and every greenhouse's
\* displayed mass at the placeholder.
C2_HardResetClears ==
    [][ResetStep =>
          /\ progressBar' = 0
          /\ progressLabel' = LabelIdle
          /\ \A i \in GH : massEl'[i] = Placeholder]_vars

\* Idle right after a hard reset that interrupted the reveal of a harvest
\* (callbacks of the old greenhouse objects are still pending).
C2_Witness ==
    /\ DriverState = "Idle"
    /\ \E t \in timeouts : t.detached /\ t.s.lastWeekComputed = TOTAL_WEEKS - 1
    /\ progressBar = 0
    /\ progressLabel = LabelIdle
    /\ \A i \in GH : massEl[i] = Placeholder

\* C3: a mass is displayed only while the driver is Harvested.
C3_MassOnlyWhenHarvested ==
    DriverState # "Harvested" => \A i \in GH : massEl[i] = Placeholder

\* C4: at most one interval timer is live, and none while the driver is Idle
\* or Harvested, so no tick runs there.
C4_TicksOnlyWhileRunning ==
    /\ Cardinality(DOMAIN intervals) <= 1
    /\ (DOMAIN intervals # {} => running /\ DOMAIN intervals = {timer})
    /\ (DriverState # "Running" => ~ENABLED Tick)

\* Harvested after the harvesting tick: the interval is cleared.
C4_Witness ==
    /\ DriverState = "Harvested"
    /\ progressLabel = LabelHarvest
    /\ intervals = << >>
    /\ timer # 0

\* C5: under fair firing of the timer and an advancing clock every run ends
\* (the driver leaves Running), and the n-th tick of a run comes no earlier
\* than n * TICK_MS after its start, so a run has at most
\* SIM_DURATION_MS / TICK_MS ticks before the harvesting one.
C5_RunTerminates ==
    /\ (running ~> ~running)
    /\ [](running => ticks * TICK_MS <= elapsed)

\* Harvested, reached by the harvesting tick of a run with earlier ticks.
C5_Witness ==
    /\ DriverState = "Harvested"
    /\ progressBar = 100
    /\ \A i \in GH : state[i].lastWeekComputed = TOTAL_WEEKS - 1
    /\ \E i \in GH : editedInRun[i]

\* C6: for the evaluated arguments every weekly growth is >= 0 and the final
\* mass lies in [120, 2200].
C6_GrowthAndMassRange ==
    /\ \A w1 \in DOMAIN probe.weekly : probe.weekly[w1] >= 0
    /\ probe.acc >= 0
    /\ (probe.stage = "final" => MinMass <= probe.mass /\ probe.mass <= MaxMass)

\* A final mass held down by the upper clamp.
C6_Witness ==
    /\ probe.stage = "final"
    /\ probe.mass = MaxMass
    /\ RoundedMass(probe.acc, 1099) > MaxMass
    /\ \A w1 \in DOMAIN probe.weekly : probe.weekly[w1] > 0

\* A step of a run in progress that is neither a start nor a hard reset.
RunStep == running /\ growBtnDisabled' /\ ~(\E i \in GH : state'[i].lastWeekComputed < state[i].lastWeekComputed)

\* C7: within a run a step changes accGrowth only by adding the growth of the
\* weeks lastWeekComputed + 1 .. lastWeekComputed' at the inputs in force in
\* that step; an input edit changes no greenhouse record.
C7_NoRetroactiveRecompute ==
    [][RunStep =>
          \A i \in GH :
              /\ state'[i].accGrowth =
                     IntegrateWeeks(state[i].accGrowth, state[i].lastWeekComputed + 1,
                                    state'[i].lastWeekComputed, inputs[i], state[i])
              /\ (inputs' # inputs => state' = state)]_vars

\* A run in which an input changed between two ticks that both integrated
\* weeks: the accumulator differs from a recomputation at the current inputs.
C7_Witness ==
    /\ running
    /\ ticks >= 2
    /\ \E i \in GH :
          /\ editedInRun[i]
          /\ state[i].lastWeekComputed >= 1
          /\ state[i].accGrowth #
                 IntegrateWeeks(0, 0, state[i].lastWeekComputed, inputs[i], state[i])

\* C8: with a greenhouse's inputs unchanged since the start, its accumulator
\* equals the integration of weeks 0..lastWeekComputed in one go, whatever
\* ticks the weeks were integrated in.
C8_SplitIntegrationAgrees ==
    \A i \in GH :
        (DriverState # "Idle" /\ ~editedInRun[i]) =>
            state[i].accGrowth =
                IntegrateWeeks(0, 0, state[i].lastWeekComputed, inputs[i], state[i])

\* Weeks integrated over at least three ticks, one of them skipping weeks.
C8_Witness ==
    /\ running
    /\ ticks >= 3
    /\ \A i \in GH : ~editedInRun[i] /\ state[i].lastWeekComputed >= 12

\* C9 as stated: a greenhouse's cloud schedule changes only in an accepted
\* start and its soil factor only in a hard reset.
C9_ScheduleOnlyOnStart ==
    [][\A i \in GH :
          /\ (Schedule(state'[i]) # Schedule(state[i]) => (~running /\ running'))
          /\ (state'[i].soil # state[i].soil => ResetStep)]_vars

\* C9 (amended): a greenhouse's cloud schedule changes only in an accepted
\* start or in a hard reset (whose fresh greenhouse objects carry the empty
\* schedule), and its soil factor only in a hard reset; while the run goes on
\* every step -- ticks and input edits -- leaves both unchanged.
C9_ScheduleAndSoilFixed ==
    [][\A i \in GH :
          /\ (Schedule(state'[i]) # Schedule(state[i]) =>
                 (~running /\ running') \/ ResetStep)
          /\ (state'[i].soil # state[i].soil => ResetStep)
          /\ ((running /\ running') =>
                 Schedule(state'[i]) = Schedule(state[i]) /\ state'[i].soil = state[i].soil)]_vars

\* A run with a generated schedule in which ticks integrated cloudy weeks and
\* an input was edited.
C9_Witness ==
    /\ running
    /\ ticks >= 2
    /\ \E i \in GH : editedInRun[i]
    /\ \A i \in GH : state[i].cloudyWeeks # {} /\ Len(state[i].cloudyReductions) = TOTAL_WEEKS

\* C10: over integer temperatures the temperature factor is 1 exactly at 24,
\* strictly increases per degree from 10 to 24, strictly decreases per degree
\* from 24 to 35, and is 0.05 at and beyond 10 and 35.
C10_TemperatureFactorShape ==
    probe.stage # "args" =>
        LET t == probe.temperatureC
            f == probe.tempFactor
        IN  /\ (f = 1540 <=> t = 24)
            /\ ((t <= 10 \/ t >= 35) <=> f = 77)
            /\ ((10 <= t /\ t < 24) => f < TempFactor(t + 1))
            /\ ((24 <= t /\ t < 35) => f > TempFactor(t + 1))

\* The factor evaluated at the peak.
C10_Witness ==
    probe.stage # "args" /\ probe.temperatureC = 24 /\ probe.tempFactor = 1540

\* C11: the light factor (of a week without reduction) and the CO2 factor do
\* not decrease when the unit count goes up by one, are at counts 2 and above
\* what they are at 3, and at counts 0 and below what they are at 0.
C11_CountFactorsSaturate ==
    probe.stage # "args" =>
        LET l  == probe.lightsCount
            c  == probe.co2Fans
            cf == probe.co2Factor
        IN  /\ \A w1 \in DOMAIN probe.lightFactor :
                   ReductionAt(probe.cloudyReductions, w1 - 1) = 0 =>
                       LET lf == probe.lightFactor[w1]
                       IN  /\ lf <= LightFactor(l + 1, 0)
                           /\ (l >= 2 => lf = LightFactor(3, 0))
                           /\ (l <= 0 => lf = LightFactor(0, 0))
            /\ cf <= Co2Factor(c + 1)
            /\ (c >= 2 => cf = Co2Factor(3))
            /\ (c <= 0 => cf = Co2Factor(0))

\* Factors evaluated at a light count above 3 and a fan count below 0.
C11_Witness ==
    /\ probe.stage # "args"
    /\ probe.lightsCount > 3
    /\ probe.co2Fans < 0
    /\ probe.cloudyWeeks = {}
    /\ probe.lightFactor[1] = 160000
    /\ probe.co2Factor = 100

\* C12: in a week with a scheduled reduction > 0 the light factor is the table
\* value times (1 - reduction), strictly below the table value; a week outside
\* the cloudy set has reduction 0 and the table value as its light factor.
C12_CloudReducesLight ==
    probe.stage # "args" =>
        \A w1 \in DOMAIN probe.lightFactor :
            LET r     == ReductionAt(probe.cloudyReductions, w1 - 1)
                table == lightMultipliers[ClampCount(probe.lightsCount) + 1]
                lf    == probe.lightFactor[w1]
            IN  /\ (r > 0 => lf = table * (1000 - r) /\ lf < table * 1000)
                /\ ((w1 - 1) \notin probe.cloudyWeeks => r = 0 /\ lf = table * 1000)

\* A generated schedule with cloudy and clear weeks, evaluated.
C12_Witness ==
    /\ probe.stage # "args"
    /\ \E w1, w2 \in DOMAIN probe.lightFactor :
           /\ (w1 - 1) \in probe.cloudyWeeks
           /\ (w2 - 1) \notin probe.cloudyWeeks
           /\ probe.cloudyReductions[w1] >= 300
           /\ probe.lightFactor[w1] < probe.lightFactor[w2]

\* C13: in Idle -- initially and after every hard reset -- no greenhouse
\* shows the cloudy-week indicator, every stem is at minimum scale and leaves
\* and fruit are invisible.
C13_IdleVisualsAtRest ==
    DriverState = "Idle" => \A i \in GH : ~eventsEl[i] /\ plant[i] = RestPlant

\* A step in which the interval callback ran: a tick of the run, or the
\* harvesting tick (the only step that ends a run with growBtn still disabled).
TickStep == ticks' = ticks + 1 \/ (running /\ ~running' /\ growBtnDisabled')

\* C14: every tick leaves a progress in 0..100 percent and the label
\* "Growing... Month k of N" with 1 <= k <= N = MONTHS exactly when the
\* progress is below 1, "Harvest ready" exactly when it is 1; and in every
\* state "Harvest ready" is shown if and only if the driver is Harvested.
C14_ProgressAndLabel ==
    /\ [][TickStep =>
              /\ 0 <= progressBar' /\ progressBar' <= 100
              /\ progressBar' = (Progress * 100) \div SIM_DURATION_MS
              /\ (Progress < SIM_DURATION_MS <=>
                     /\ progressLabel'.phase = "Growing"
                     /\ progressLabel'.of = MONTHS
                     /\ 1 <= progressLabel'.month /\ progressLabel'.month <= MONTHS)
              /\ (Progress = SIM_DURATION_MS <=> progressLabel' = LabelHarvest)]_vars
    /\ [](progressLabel = LabelHarvest <=> DriverState = "Harvested")

\* A tick in the last month of a run has run: the label reads Month N of N.
C14_Witness ==
    /\ running
    /\ ticks >= 1
    /\ progressLabel = LabelGrowing(MONTHS)
    /\ progressBar >= 80 /\ progressBar < 100

\* C15: in Harvested every greenhouse has lastWeekComputed = TOTAL_WEEKS - 1
\* and (its inputs unchanged since the start) an accumulator equal to the sum
\* of the weeks 0..TOTAL_WEEKS - 1, each once; and a step of a harvest's
\* reveal that puts a mass on display computes it from the accumulator of a
\* greenhouse object with all weeks integrated.
C15_HarvestFullyIntegrated ==
    /\ [](DriverState = "Harvested" =>
             \A i \in GH :
                 /\ state[i].lastWeekComputed = TOTAL_WEEKS - 1
                 /\ (~editedInRun[i] =>
                        state[i].accGrowth =
                            IntegrateWeeks(0, 0, TOTAL_WEEKS - 1, inputs[i], state[i])))
    /\ [][\A i \in GH :
              (massEl'[i] # massEl[i] /\ massEl'[i].shown) =>
                  \E t \in timeouts, noise \in NoiseSamples :
                      LET s == IF t.detached THEN t.s ELSE state[i]
                      IN  /\ t.gh = i /\ t.remaining = 0
                          /\ s.lastWeekComputed = TOTAL_WEEKS - 1
                          /\ massEl'[i] = MassText(FinalMass(s.accGrowth, noise))]_vars

\* Harvested with the first mass on display and a later reveal still pending.
C15_Witness ==
    /\ DriverState = "Harvested"
    /\ \E i \in GH : massEl[i].shown
    /\ \E t \in timeouts : ~t.detached /\ t.remaining > 0
    /\ \A i \in GH : state[i].lastWeekComputed = TOTAL_WEEKS - 1 /\ state[i].accGrowth > 0

C17_ScheduleWellFormed ==
    probe.stage = "scheduled" =>
        /\ probe.cloudyWeeks # {}
        /\ Cardinality(probe.cloudyWeeks) <= 6
        /\ probe.cloudyWeeks \subseteq Weeks
        /\ Len(probe.cloudyReductions) = TOTAL_WEEKS
        /\ \A w \in Weeks :
               LET r == probe.cloudyReductions[w + 1]
               IN  /\ (w \in probe.cloudyWeeks <=> (300 <= r /\ r < 600))
                   /\ (w \notin probe.cloudyWeeks => r = 0)

\* Three stretches of two weeks, the last starting at week TOTAL_WEEKS - 2:
\* six cloudy weeks, the last week of the run among them.
C17_Witness ==
    /\ probe.stage = "scheduled"
    /\ Len(probe.stretches) = MaxStretches
    /\ Cardinality(probe.cloudyWeeks) = 6
    /\ (TOTAL_WEEKS - 1) \in probe.cloudyWeeks
    /\ probe.cloudyReductions[TOTAL_WEEKS] >= 300

\* C18: the Grow button is enabled exactly in Idle (not running, label
\* "Idle") and the Reset button exactly in Running or Harvested, each the
\* complement of the other; a run begins only from Idle with every greenhouse
\* record as initState() made it, and Harvested is left only by a hard reset.
C18_ButtonsFollowDriverState ==
    /\ [](/\ resetBtnDisabled = ~growBtnDisabled
          /\ (~growBtnDisabled <=> (~running /\ progressLabel = LabelIdle))
          /\ (~resetBtnDisabled <=> (running \/ progressLabel = LabelHarvest)))
    /\ [][/\ ((~running /\ running') =>
                  /\ DriverState = "Idle"
                  /\ progressLabel = LabelIdle
                  /\ \A i \in GH : state[i] = NewGreenhouse(state[i].soil))
          /\ ((DriverState = "Harvested" /\ DriverState' # "Harvested") =>
                  ResetStep /\ DriverState' = "Idle")]_vars

\* A second run, started after a harvest and the reset that followed it.
C18_Witness ==
    /\ running
    /\ ticks >= 1
    /\ growBtnDisabled /\ ~resetBtnDisabled
    /\ \E t \in timeouts : t.detached /\ t.s.lastWeekComputed = TOTAL_WEEKS - 1

====
